---- MODULE Spec2Model ----
(***************************************************************************)
(* Smart Folder Organizer: the directory classification and move engine of *)
(* src/main.py (organize_folder, process_file) as a state machine over an  *)
(* abstract filesystem.                                                    *)
(*                                                                         *)
(* A name (file name, folder name, category, extension) is a sequence of   *)
(* one-character strings, so that os.path.splitext and str.lower are       *)
(* computed character by character.  A path is a sequence of names; the    *)
(* empty sequence stands for the empty string ''.  The filesystem holds    *)
(* directories and regular files only (no symbolic links); a regular file  *)
(* carries an id, its content's identity.                                  *)
(***************************************************************************)
EXTENDS Naturals, Sequences, FiniteSets

VARIABLES
    fs,                    \* the filesystem: path -> [kind, id]
    folder_path,           \* organize_folder's arguments
    file_mappings,
    recursive,
    pc,                    \* "idle", "walk", "list", "returned", "raised"
    run,                   \* number of organize_folder calls begun
    summary_report,        \* organize_folder's locals
    total_files_processed,
    stack,                 \* os.walk: directories still to be scanned
    root,                  \* os.walk: the directory yielded last
    files,                 \*          its non-directory entries not yet looped over
    items,                 \* os.listdir(folder_path) entries not yet looped over
    log,                   \* what update_log_widget received during this call
    result,                \* organize_folder's return value (None before)
    fsStart,               \* history: fs when the current call began
    prevStart,             \* history: fs when the previous call began
    visited,               \* history: the directories os.walk yielded in this call
    moved,                 \* history: ids of the files this call moved
    movedPrev,             \* history: ids of the files the previous call moved
    faults,                \* operations the filesystem has refused so far
    last                   \* history: the locals of the last process_file call

vars == <<fs, folder_path, file_mappings, recursive, pc, run, summary_report,
          total_files_processed, stack, root, files, items, log, result,
          fsStart, prevStart, visited, moved, movedPrev, faults, last>>

---------------------------------------------------------------------------
(* Bounds *)

MaxLen == 3        \* longest file name drawn for the single-file inputs
MaxCats == 2       \* most categories in a drawn mapping
MaxRuns == 2       \* organize_folder calls in a row
MaxFaults == 1     \* operations the filesystem refuses (OSError) in a behaviour

---------------------------------------------------------------------------
(* Names *)

Chars == {"a", "J", "."}

Others == <<"O", "t", "h", "e", "r", "s">>
Images == <<"I">>
Documents == <<"D">>

dot_j == <<".", "j">>
empty_ext == <<>>

a_j == <<"a", ".", "j">>
noext == <<"n">>
subdir == <<"s">>
rdir == <<"r">>
nodir == <<"x">>

None == <<>>

---------------------------------------------------------------------------
(* os.path and os on the abstract filesystem *)

join(a, b) == Append(a, b)

exists(fsys, p) == p \in DOMAIN fsys

isdir(fsys, p) == p \in DOMAIN fsys /\ fsys[p].kind = "dir"

isfile(fsys, p) == p \in DOMAIN fsys /\ fsys[p].kind = "file"

IsPrefix(d, p) == Len(d) <= Len(p) /\ SubSeq(p, 1, Len(d)) = d

Children(fsys, d) == {p \in DOMAIN fsys : Len(p) = Len(d) + 1 /\ IsPrefix(d, p)}

listdir(fsys, d) == {p[Len(p)] : p \in Children(fsys, d)}

DirNode == [kind |-> "dir", id |-> 0]

\* os.makedirs(path, exist_ok=True): creates the missing directories of path;
\* raises when a component exists and is not a directory, or when the
\* filesystem refuses the mkdir (oserr = "mkdir").
makedirs(fsys, path, oserr) ==
    LET pre(i) == SubSeq(path, 1, i)
        missing == {pre(i) : i \in 1..Len(path)} \ DOMAIN fsys
    IN  IF \E i \in 1..Len(path) : isfile(fsys, pre(i))
          THEN [raised |-> TRUE, fs |-> fsys]
        ELSE IF missing = {}
          THEN [raised |-> FALSE, fs |-> fsys]
        ELSE IF oserr = "mkdir"
          THEN [raised |-> TRUE, fs |-> fsys]
        ELSE [raised |-> FALSE,
              fs |-> [p \in DOMAIN fsys \cup missing |->
                         IF p \in DOMAIN fsys THEN fsys[p] ELSE DirNode]]

\* os.rename(src, dst): src and everything below it now lives at dst.
rename(fsys, src, dst) ==
    LET under == {p \in DOMAIN fsys : IsPrefix(src, p)}
        to(p) == dst \o SubSeq(p, Len(src) + 1, Len(p))
        kept == DOMAIN fsys \ under
    IN  [q \in kept \cup {to(p) : p \in under} |->
            IF q \in kept THEN fsys[q]
            ELSE fsys[CHOOSE p \in under : to(p) = q]]

\* shutil.move(src, dst): into dst when dst is a directory; raises when the
\* target name is taken, the source is gone, or the filesystem refuses the
\* rename (oserr = "move").
move(fsys, src, dst, oserr) ==
    LET real_dst == IF isdir(fsys, dst) THEN join(dst, src[Len(src)]) ELSE dst
    IN  IF ~exists(fsys, src) \/ exists(fsys, real_dst) \/ oserr = "move"
          THEN [raised |-> TRUE, fs |-> fsys]
          ELSE [raised |-> FALSE, fs |-> rename(fsys, src, real_dst)]

---------------------------------------------------------------------------
(* str.lower and os.path.splitext *)

LowerChar(c) == IF c = "J" THEN "j" ELSE IF c = "A" THEN "a" ELSE c

lower(s) == [i \in 1..Len(s) |-> LowerChar(s[i])]

\* str.rfind, 1-based; 0 when ch does not occur
rfind(s, ch) ==
    IF \E i \in 1..Len(s) : s[i] = ch
      THEN CHOOSE i \in 1..Len(s) : s[i] = ch /\ \A j \in (i+1)..Len(s) : s[j] # ch
      ELSE 0

\* splitext_ext with a fault: the leading dots are not skipped.
splitext_ext_naive(p) ==
    LET dotIndex == rfind(p, ".")
    IN  IF dotIndex > 0 THEN SubSeq(p, dotIndex, Len(p)) ELSE <<>>

\* os.path.splitext(filename)[1]: from the last dot on, unless only dots
\* precede it (a file name holds no separator).
splitext_ext(p) ==
    LET dotIndex == rfind(p, ".")
    IN  IF dotIndex > 0 /\ \E k \in 1..(dotIndex - 1) : p[k] # "."
          THEN SubSeq(p, dotIndex, Len(p))
          ELSE <<>>

---------------------------------------------------------------------------
(* process_file *)

categories(mappings) == {mappings[i].category : i \in 1..Len(mappings)}

\* first_match with a fault: the loop does not stop at the first match.
RECURSIVE last_match(_, _, _)
last_match(mappings, file_extension, i) ==
    IF i > Len(mappings) THEN 0
    ELSE LET later == last_match(mappings, file_extension, i + 1)
         IN  IF later > 0 THEN later
             ELSE IF file_extension \in mappings[i].extensions THEN i ELSE 0

\* for category, extensions in file_mappings.items(): if file_extension in
\* extensions: ... break.  The index of the category the loop stops at, from
\* i on; 0 when the loop ends with moved = False.
RECURSIVE first_match(_, _, _)
first_match(mappings, file_extension, i) ==
    IF i > Len(mappings) THEN 0
    ELSE IF file_extension \in mappings[i].extensions THEN i
    ELSE first_match(mappings, file_extension, i + 1)

\* dest_folder_of with a fault: one set of category folders, under the target.
dest_folder_central(current_folder, category) == join(folder_path, category)

\* dest_folder = os.path.join(current_folder, category)
dest_folder_of(current_folder, category) == join(current_folder, category)

\* dest_taken with a fault: the destination is never looked at.
dest_never_taken(fsys, dest_folder, filename) == FALSE

\* os.path.exists(os.path.join(dest_folder, filename))
dest_taken(fsys, dest_folder, filename) == exists(fsys, join(dest_folder, filename))

\* increment with a fault: a moved file is counted twice.
increment_twice(summary, category) == [summary EXCEPT ![category] = @ + 2]

\* summary_report[category] += 1
increment(summary, category) == [summary EXCEPT ![category] = @ + 1]

MovedMsg(filename, category) ==
    [fmt |-> "Moved: {filename} -> {category}/",
     filename |-> filename, category |-> category, folder_path |-> <<>>]

SkippedMsg(filename, category) ==
    [fmt |-> "Skipped (exists): {filename} in {category}/",
     filename |-> filename, category |-> category, folder_path |-> <<>>]

ErrorMsg(filename) ==
    [fmt |-> "Error moving {filename}: {e}",
     filename |-> filename, category |-> <<>>, folder_path |-> <<>>]

ErrorOthersMsg(filename) ==
    [fmt |-> "Error moving {filename} to 'Others': {e}",
     filename |-> filename, category |-> <<>>, folder_path |-> <<>>]

InvalidMsg(path) ==
    [fmt |-> "Error: The path '{folder_path}' is invalid or not a directory.",
     filename |-> <<>>, category |-> <<>>, folder_path |-> path]

OsErrs == {"none", "mkdir", "move"}

\* process_file(current_folder, filename, file_mappings, summary_report,
\* update_log_widget) run on filesystem fsys, where the filesystem refuses
\* the operation oserr names.  The matched-category branch and the 'Others'
\* branch differ in the category and in the error message only.
process_file(fsys, current_folder, filename, mappings, summary, oserr) ==
    LET source_path == join(current_folder, filename)
        file_extension == lower(splitext_ext(filename))
        i == first_match(mappings, file_extension, 1)
        category == IF i > 0 THEN mappings[i].category ELSE Others
        dest_folder == dest_folder_of(current_folder, category)
        mk == makedirs(fsys, dest_folder, oserr)
        mv == move(mk.fs, source_path, dest_folder, oserr)
        locals == [current_folder |-> current_folder, filename |-> filename,
                   file_extension |-> file_extension, category |-> category,
                   id |-> fsys[source_path].id]
    IN  IF mk.raised
          THEN [raised |-> TRUE, outcome |-> "Raised", fs |-> mk.fs,
                summary |-> summary, msgs |-> <<>>, locals |-> locals]
        ELSE IF dest_taken(mk.fs, dest_folder, filename)
          THEN [raised |-> FALSE, outcome |-> "Skipped", fs |-> mk.fs,
                summary |-> summary,
                msgs |-> <<SkippedMsg(filename, category)>>, locals |-> locals]
        ELSE IF mv.raised
          THEN [raised |-> FALSE, outcome |-> "Error", fs |-> mv.fs,
                summary |-> summary,
                msgs |-> <<IF i > 0 THEN ErrorMsg(filename)
                                    ELSE ErrorOthersMsg(filename)>>,
                locals |-> locals]
        ELSE [raised |-> FALSE, outcome |-> "Moved", fs |-> mv.fs,
              summary |-> increment(summary, category),
              msgs |-> <<MovedMsg(filename, category)>>, locals |-> locals]

---------------------------------------------------------------------------
(* Inputs *)

FileNode(n) == [kind |-> "file", id |-> n]

\* File names of 1..MaxLen characters; "." and ".." name no file.
GenNames ==
    {s \in UNION {[1..n -> Chars] : n \in 1..MaxLen} : s \notin {<<".">>, <<".", ".">>}}

CatNames == {Images, Documents, Others}

ExtLists == {{dot_j}, {dot_j, empty_ext}}

Category(c, e) == [category |-> c, extensions |-> e]

\* Ordered mappings of at most MaxCats categories; a dict's keys are distinct.
GenMappings ==
    {m \in UNION {[1..n -> {Category(c, e) : c \in CatNames, e \in ExtLists}] :
                    n \in 0..MaxCats} :
        \A i, j \in 1..Len(m) : i # j => m[i].category # m[j].category}

TreeMappings ==
    {<<>>,
     <<Category(Images, {dot_j})>>,
     <<Category(Images, {dot_j, empty_ext}), Category(Documents, {dot_j})>>}

\* A filesystem from a set of <<path, node>> entries with distinct paths.
Tree(entries) ==
    [p \in {e[1] : e \in entries} |-> (CHOOSE e \in entries : e[1] = p)[2]]

D(p) == <<p, DirNode>>

F(p, n) == <<p, FileNode(n)>>

\* What the target directory may hold, by place.
TopFiles == {{}, {F(<<rdir, a_j>>, 1)},
             {F(<<rdir, a_j>>, 1), F(<<rdir, noext>>, 2)}}

ImagesPlace ==
    {{}, {F(<<rdir, Images>>, 3)},
     {D(<<rdir, Images>>), F(<<rdir, Images, a_j>>, 4)},
     {D(<<rdir, Images>>), F(<<rdir, Images, a_j>>, 4),
      D(<<rdir, Images, subdir>>), F(<<rdir, Images, subdir, a_j>>, 5)}}

OthersPlace ==
    {{}, {F(<<rdir, Others>>, 6)},
     {D(<<rdir, Others>>), F(<<rdir, Others, noext>>, 7)}}

SubdirPlace ==
    {{}, {D(<<rdir, subdir>>), F(<<rdir, subdir, a_j>>, 8)},
     {D(<<rdir, subdir>>), F(<<rdir, subdir, a_j>>, 8),
      D(<<rdir, subdir, Images>>), F(<<rdir, subdir, Images, a_j>>, 9)}}

Trees ==
    {Tree({D(<<rdir>>)} \cup t \cup i \cup o \cup s) :
        t \in TopFiles, i \in ImagesPlace, o \in OthersPlace, s \in SubdirPlace}

NoCall == [n |-> 0, current_folder |-> <<>>, filename |-> <<>>,
           file_extension |-> <<>>, category |-> <<>>, id |-> 0,
           outcome |-> "None"]

Idle ==
    /\ pc = "idle"
    /\ run = 0
    /\ summary_report = <<>>
    /\ total_files_processed = 0
    /\ stack = <<>>
    /\ root = <<>>
    /\ files = {}
    /\ items = {}
    /\ log = <<>>
    /\ result = None
    /\ fsStart = fs
    /\ prevStart = fs
    /\ visited = {}
    /\ moved = {}
    /\ movedPrev = {}
    /\ faults = 0
    /\ last = NoCall

\* A directory tree to organize, in either mode.
InitTree ==
    /\ fs \in Trees
    /\ folder_path = <<rdir>>
    /\ file_mappings \in TreeMappings
    /\ recursive \in BOOLEAN
    /\ Idle

\* One file of any name, under any mapping.
InitOneFile ==
    /\ \E name \in GenNames : fs = Tree({D(<<rdir>>), F(<<rdir, name>>, 1)})
    /\ folder_path = <<rdir>>
    /\ file_mappings \in GenMappings
    /\ recursive \in BOOLEAN
    /\ Idle

\* A target that is '', missing, or a regular file.
InitInvalid ==
    /\ fs \in {Tree({D(<<rdir>>)} \cup t) : t \in TopFiles}
    /\ folder_path \in {<<>>, <<nodir>>, <<rdir, a_j>>, <<rdir, noext>>}
    /\ ~isdir(fs, folder_path)
    /\ file_mappings \in TreeMappings
    /\ recursive \in BOOLEAN
    /\ Idle

Init == InitTree \/ InitInvalid

---------------------------------------------------------------------------
(* organize_folder *)

\* invalid_target with a fault: any existing path is taken for a directory.
invalid_target_exists(fsys, path) == path = <<>> \/ ~exists(fsys, path)

\* not folder_path or not os.path.isdir(folder_path)
invalid_target(fsys, path) == path = <<>> \/ ~isdir(fsys, path)

\* prune with a fault: nothing is excluded.
prune_nothing(dirs, mappings) == dirs

\* prune with a fault: 'Others' is not excluded.
prune_keeps_others(dirs, mappings) == {d \in dirs : d \notin categories(mappings)}

\* dirs[:] = [d for d in dirs if d not in file_mappings.keys() and d != 'Others']
prune(dirs, mappings) == {d \in dirs : d \notin categories(mappings) /\ d # Others}

\* is_regular with a fault: every entry of the listing is processed.
is_regular_any(fsys, source_path) == TRUE

\* os.path.isfile(source_path)
is_regular(fsys, source_path) == isfile(fsys, source_path)

RECURSIVE Orders(_)
Orders(S) ==
    IF S = {} THEN {<<>>}
    ELSE UNION {{<<x>> \o o : o \in Orders(S \ {x})} : x \in S}

\* The call begins: the target is checked, the counters are seeded, and the
\* traversal is set up.
organize_folder ==
    /\ pc \in {"idle", "returned", "raised"}
    /\ run < MaxRuns
    /\ run' = run + 1
    /\ fsStart' = fs
    /\ prevStart' = fsStart
    /\ movedPrev' = moved
    /\ moved' = {}
    /\ visited' = {}
    /\ last' = NoCall
    /\ result' = None
    /\ root' = <<>>
    /\ files' = {}
    /\ total_files_processed' = 0
    /\ IF invalid_target(fs, folder_path)
         THEN /\ log' = <<InvalidMsg(folder_path)>>
              /\ pc' = "returned"
              /\ summary_report' = <<>>
              /\ stack' = <<>>
              /\ items' = {}
         ELSE /\ log' = <<>>
              /\ summary_report' =
                    [c \in categories(file_mappings) \cup {Others} |-> 0]
              /\ IF recursive
                   THEN /\ pc' = "walk"
                        /\ stack' = <<folder_path>>
                        /\ items' = {}
                   ELSE /\ pc' = "list"
                        /\ stack' = <<>>
                        /\ items' = listdir(fs, folder_path)
    /\ UNCHANGED <<fs, folder_path, file_mappings, recursive, faults>>

\* The effect of one process_file call on the caller: an exception of
\* process_file leaves organize_folder, else the file is counted.
Call(current_folder, filename, oserr) ==
    LET r == process_file(fs, current_folder, filename, file_mappings,
                          summary_report, oserr)
        unrefused == process_file(fs, current_folder, filename, file_mappings,
                                  summary_report, "none")
    IN  /\ oserr # "none" => faults < MaxFaults /\ r.outcome # unrefused.outcome
        /\ faults' = IF oserr # "none" THEN faults + 1 ELSE faults
        /\ fs' = r.fs
        /\ summary_report' = r.summary
        /\ log' = log \o r.msgs
        /\ last' = [n |-> last.n + 1, current_folder |-> r.locals.current_folder,
                    filename |-> r.locals.filename,
                    file_extension |-> r.locals.file_extension,
                    category |-> r.locals.category, id |-> r.locals.id,
                    outcome |-> r.outcome]
        /\ moved' = IF r.outcome = "Moved" THEN moved \cup {r.locals.id} ELSE moved
        /\ IF r.raised
             THEN /\ pc' = "raised"
                  /\ stack' = <<>>
                  /\ files' = {}
                  /\ items' = {}
                  /\ UNCHANGED total_files_processed
             ELSE /\ total_files_processed' = total_files_processed + 1
                  /\ stack' = stack
                  /\ files' = files \ {filename}
                  /\ items' = items \ {filename}
                  /\ UNCHANGED pc

\* os.walk yields the next directory; the loop body prunes dirs, and the walk
\* will descend into what is left of it, in the order of the listing.
walk_next ==
    /\ pc = "walk"
    /\ files = {}
    /\ stack # <<>>
    /\ LET dir == stack[Len(stack)]
           names == listdir(fs, dir)
           dirs == prune({d \in names : isdir(fs, join(dir, d))}, file_mappings)
       IN  /\ root' = dir
           /\ files' = {f \in names : ~isdir(fs, join(dir, f))}
           /\ visited' = visited \cup {dir}
           /\ \E order \in Orders(dirs) :
                 stack' = SubSeq(stack, 1, Len(stack) - 1)
                             \o [k \in 1..Len(order) |-> join(dir, order[k])]
    /\ UNCHANGED <<fs, folder_path, file_mappings, recursive, pc, run,
                   summary_report, total_files_processed, items, log, result,
                   fsStart, prevStart, moved, movedPrev, faults, last>>

\* for filename in files: process_file(root, filename, ...)
walk_file ==
    /\ pc = "walk"
    /\ \E filename \in files, oserr \in OsErrs : Call(root, filename, oserr)
    /\ UNCHANGED <<folder_path, file_mappings, recursive, run, root, result,
                   fsStart, prevStart, visited, movedPrev>>

\* for item_name in os.listdir(folder_path): a regular file is processed
list_file ==
    /\ pc = "list"
    /\ \E item_name \in items, oserr \in OsErrs :
          /\ is_regular(fs, join(folder_path, item_name))
          /\ Call(folder_path, item_name, oserr)
    /\ UNCHANGED <<folder_path, file_mappings, recursive, run, root, result,
                   fsStart, prevStart, visited, movedPrev>>

\* ... and anything else is passed over
list_skip ==
    /\ pc = "list"
    /\ \E item_name \in items :
          /\ ~is_regular(fs, join(folder_path, item_name))
          /\ items' = items \ {item_name}
    /\ UNCHANGED <<fs, folder_path, file_mappings, recursive, pc, run,
                   summary_report, total_files_processed, stack, root, files,
                   log, result, fsStart, prevStart, visited, moved, movedPrev,
                   faults, last>>

\* return summary_report, total_files_processed
return_summary ==
    /\ \/ pc = "walk" /\ files = {} /\ stack = <<>>
       \/ pc = "list" /\ items = {}
    /\ result' = <<summary_report, total_files_processed>>
    /\ pc' = "returned"
    /\ UNCHANGED <<fs, folder_path, file_mappings, recursive, run,
                   summary_report, total_files_processed, stack, root, files,
                   items, log, fsStart, prevStart, visited, moved, movedPrev,
                   faults, last>>

Next ==
    \/ organize_folder
    \/ walk_next
    \/ walk_file
    \/ list_file
    \/ list_skip
    \/ return_summary

Spec == Init /\ [][Next]_vars

\* The same program on the single-file inputs.
SpecNames == InitOneFile /\ [][Next]_vars

---------------------------------------------------------------------------
(* Properties *)

AllCategories == categories(file_mappings) \cup {Others}

ValidTarget == folder_path # <<>> /\ isdir(fsStart, folder_path)

Parent(p) == SubSeq(p, 1, Len(p) - 1)

Basename(p) == p[Len(p)]

\* The category the specification assigns to an extension: that of the
\* earliest category listing it, and 'Others' when none does.
ClaimedCategory(mappings, ext) ==
    LET hits == {i \in 1..Len(mappings) : ext \in mappings[i].extensions}
    IN  IF hits = {} THEN Others
        ELSE mappings[CHOOSE i \in hits : \A j \in hits : i <= j].category

\* C1: process_file classifies every file into the first category, in the
\* mapping's order, whose extension list contains the file's lowercased
\* extension, and into "Others" when none does; the destination folder and
\* the progress event carry that category.
C1_FirstMatchWins ==
    last.n > 0 =>
        /\ last.category = ClaimedCategory(file_mappings, last.file_extension)
        /\ last.outcome \in {"Moved", "Skipped"} =>
              log[Len(log)].category = last.category
        /\ last.outcome = "Moved" =>
              /\ isfile(fs, last.current_folder \o <<last.category, last.filename>>)
              /\ fs[last.current_folder \o <<last.category, last.filename>>].id = last.id

\* C1 witness: two categories list the file's extension and the file was
\* moved into the earlier one.
C1_Witness ==
    /\ last.n > 0
    /\ last.outcome = "Moved"
    /\ Len(file_mappings) = 2
    /\ last.file_extension \in file_mappings[1].extensions
    /\ last.file_extension \in file_mappings[2].extensions
    /\ last.category = file_mappings[1].category

MovedFmt == MovedMsg(<<>>, <<>>).fmt

SkippedFmt == SkippedMsg(<<>>, <<>>).fmt

ErrorFmts == {ErrorMsg(<<>>).fmt, ErrorOthersMsg(<<>>).fmt}

Events(fmts) == {k \in 1..Len(log) : log[k].fmt \in fmts}

MovedInto(c) == {k \in Events({MovedFmt}) : log[k].category = c}

\* C2: the Summary holds one counter for every configured category and for
\* "Others", each equal to the number of Moved events into that category in
\* this call, and total_files_processed is the number of Moved, Skipped and
\* Error events; the returned result is that pair.
C2_SummaryCounts ==
    (ValidTarget /\ pc \in {"walk", "list", "returned"}) =>
        /\ DOMAIN summary_report = AllCategories
        /\ \A c \in AllCategories :
              summary_report[c] = Cardinality(MovedInto(c))
        /\ total_files_processed =
              Cardinality(Events({MovedFmt, SkippedFmt} \cup ErrorFmts))
        /\ pc = "returned" =>
              result = <<summary_report, total_files_processed>>

\* C2 witness: a returned call that moved, skipped and failed on a file.
C2_Witness ==
    /\ pc = "returned"
    /\ result # None
    /\ Events({MovedFmt}) # {}
    /\ Events({SkippedFmt}) # {}
    /\ Events(ErrorFmts) # {}

\* C3: when the destination folder already holds an entry of the file's
\* name, processing the file changes nothing in the filesystem, increments
\* no counter and emits exactly one "Skipped (exists)" event.
C3_CollisionIsNoOp ==
    [][(/\ last'.n = last.n + 1
        /\ exists(fs, last'.current_folder \o <<last'.category, last'.filename>>))
       => (/\ fs' = fs
           /\ summary_report' = summary_report
           /\ last'.outcome = "Skipped"
           /\ log' = Append(log, SkippedMsg(last'.filename, last'.category)))]_vars

\* C3 witness: a file was skipped, and both it and the entry in the
\* destination folder are where they were when the call began.
C3_Witness ==
    /\ last.n > 0
    /\ last.outcome = "Skipped"
    /\ isfile(fs, join(last.current_folder, last.filename))
    /\ fs[join(last.current_folder, last.filename)].id = last.id
    /\ exists(fsStart, last.current_folder \o <<last.category, last.filename>>)
    /\ fs = fsStart

TopFileIds(fsys) ==
    {fsys[p].id : p \in {q \in Children(fsys, folder_path) : isfile(fsys, q)}}

\* C4: a call that follows another on the same target, mapping and mode
\* moves none of the files the previous call moved; when the previous call
\* was non-recursive and moved every top-level file, this one processes 0.
C4_Idempotent ==
    run >= 2 =>
        /\ moved \cap movedPrev = {}
        /\ (~recursive /\ ValidTarget /\ TopFileIds(prevStart) \subseteq movedPrev) =>
              /\ total_files_processed = 0
              /\ pc = "returned" => result[2] = 0

\* C4 witness: the second recursive call has returned, after a first call
\* that moved files, and it did process a file.
C4_Witness ==
    /\ run = 2
    /\ pc = "returned"
    /\ recursive
    /\ Cardinality(movedPrev) >= 2
    /\ total_files_processed > 0

\* Whether a component of path d below the target names a category folder.
BelowCategoryFolder(d) ==
    \E i \in (Len(folder_path) + 1)..Len(d) : d[i] \in AllCategories

\* C5: a recursive call never yields a directory at or below a subdirectory
\* named after a category or "Others", never processes a file found there,
\* and leaves every file that began the call there in place.
C5_CategoryFoldersExcluded ==
    (recursive /\ ValidTarget /\ run > 0) =>
        /\ \A d \in visited : ~BelowCategoryFolder(d)
        /\ last.n > 0 => ~BelowCategoryFolder(last.current_folder)
        /\ \A p \in DOMAIN fsStart :
              (isfile(fsStart, p) /\ BelowCategoryFolder(Parent(p))) =>
                  /\ p \in DOMAIN fs
                  /\ fs[p] = fsStart[p]
                  /\ fsStart[p].id \notin moved

\* C5 witness: a recursive call returned having processed files, with files
\* in a category folder the previous call filled and in a folder below a
\* category folder that was there from the start.
C5_Witness ==
    /\ recursive
    /\ pc = "returned"
    /\ result # None
    /\ movedPrev # {}
    /\ total_files_processed > 0
    /\ isfile(fsStart, <<rdir, Images, subdir, a_j>>)
    /\ isfile(fs, <<rdir, Images, subdir, a_j>>)

\* C6: with a target that is empty, missing or not a directory,
\* organize_folder returns None, emits the one "invalid or not a directory"
\* line, and leaves the filesystem as it was.
C6_InvalidTarget ==
    (pc = "returned" /\ (folder_path = <<>> \/ ~isdir(fsStart, folder_path))) =>
        /\ result = None
        /\ log = <<InvalidMsg(folder_path)>>
        /\ fs = fsStart

\* C6 witness: the call returned on a target that is a regular file.
C6_Witness ==
    /\ pc = "returned"
    /\ isfile(fsStart, folder_path)
    /\ result = None

\* C7: a filesystem error raised while one file is processed never aborts
\* the call: organize_folder is never left by an exception.
C7_NeverAborts == pc # "raised"

LastDot(name) ==
    CHOOSE i \in 1..Len(name) :
        name[i] = "." /\ \A j \in (i + 1)..Len(name) : name[j] # "."

\* The extension as the specification words it.
ClaimedExt(name) ==
    IF \E i \in 1..Len(name) : name[i] = "."
      THEN lower(SubSeq(name, LastDot(name), Len(name)))
      ELSE <<>>

\* The extension with the leading dots of a name set aside.
AmendedExt(name) ==
    IF \E i, k \in 1..Len(name) : name[i] = "." /\ k < i /\ name[k] # "."
      THEN lower(SubSeq(name, LastDot(name), Len(name)))
      ELSE <<>>

\* C8 as stated: the classification key is the lowercased substring from
\* the last '.' of the file name to its end, and is empty exactly when the
\* name holds no '.'.
C8_ExtensionFromLastDot ==
    last.n > 0 =>
        /\ last.file_extension = ClaimedExt(last.filename)
        /\ last.file_extension = <<>> <=>
              \A i \in 1..Len(last.filename) : last.filename[i] # "."

\* C8 as amended: the classification key is the lowercased substring from
\* the last '.' to the end when a character other than '.' precedes that
\* '.', and empty otherwise.
C8_ExtensionSkipsLeadingDots ==
    last.n > 0 =>
        /\ last.file_extension = AmendedExt(last.filename)
        /\ last.category = ClaimedCategory(file_mappings, AmendedExt(last.filename))

\* C8 witness: the file ".J" was classified by the empty extension, into
\* "Others", under a mapping whose first category lists ".j".
C8_Witness ==
    /\ last.n > 0
    /\ last.filename = <<".", "J">>
    /\ last.file_extension = <<>>
    /\ Len(file_mappings) > 0
    /\ file_mappings[1].extensions = {dot_j}
    /\ last.category = Others
    /\ last.outcome = "Moved"

\* C9: a non-recursive call processes only regular files that are direct
\* children of the target, and everything that began the call inside a
\* subdirectory of the target is where and what it was.
C9_TopLevelOnly ==
    (~recursive /\ ValidTarget /\ run > 0) =>
        /\ last.n > 0 =>
              /\ last.current_folder = folder_path
              /\ isfile(fsStart, join(folder_path, last.filename))
              /\ fsStart[join(folder_path, last.filename)].id = last.id
        /\ \A p \in DOMAIN fsStart :
              (Len(p) > Len(folder_path) + 1 \/ isdir(fsStart, p)) =>
                  p \in DOMAIN fs /\ fs[p] = fsStart[p]
        /\ total_files_processed <= Cardinality(TopFileIds(fsStart))

\* C9 witness: a non-recursive call returned having processed a file, in a
\* target with files in a plain subdirectory and in a category folder.
C9_Witness ==
    /\ ~recursive
    /\ pc = "returned"
    /\ total_files_processed > 0
    /\ isfile(fsStart, <<rdir, subdir, a_j>>)
    /\ isfile(fsStart, <<rdir, Images, a_j>>)
    /\ moved # {}

\* C10: every file that was under the target when the call began is in
\* exactly one place, under its name: where it was, or in a category or
\* "Others" folder directly inside the directory it was in.
C10_FilesPreserved ==
    (ValidTarget /\ run > 0) =>
        \A p \in DOMAIN fsStart :
            (isfile(fsStart, p) /\ IsPrefix(folder_path, p)) =>
                LET homes == {q \in DOMAIN fs : fs[q] = fsStart[p]}
                IN  /\ Cardinality(homes) = 1
                    /\ \A q \in homes :
                          \/ q = p
                          \/ \E c \in AllCategories :
                                q = Parent(p) \o <<c, Basename(p)>>

\* C10 witness: a recursive call returned; the deeper a.j is in its own
\* directory's Images folder and the target's Images/a.j is untouched.
C10_Witness ==
    /\ recursive
    /\ pc = "returned"
    /\ isfile(fsStart, <<rdir, Images, a_j>>)
    /\ isfile(fsStart, <<rdir, subdir, a_j>>)
    /\ isfile(fs, <<rdir, subdir, Images, a_j>>)
    /\ fs[<<rdir, subdir, Images, a_j>>] = fsStart[<<rdir, subdir, a_j>>]
    /\ fs[<<rdir, Images, a_j>>] = fsStart[<<rdir, Images, a_j>>]

====
